---------------------------- MODULE Spec2Model ----------------------------
(***************************************************************************)
(* A model of the sqlx row-to-object mapping layer of weisd/kratos-sqlx:   *)
(* the process-wide NameMapper and the mapper() that caches a reflectx     *)
(* Mapper for it, the DB/Tx/Stmt/Rows/Row wrappers and the way they hand   *)
(* down their unsafe flag and Mapper and pass on their arguments, scanAll, *)
(* which drains a cursor into a slice, and DB.Select and DB.Get on top.    *)
(***************************************************************************)
EXTENDS Naturals, Sequences, FiniteSets

VARIABLES
    NameMapper,   \* the installed name-mapping func (var NameMapper)
    origMapper,   \* the func mapper() last compared against (var origMapper)
    mpr,          \* the cached *reflectx.Mapper (var mpr), NoMapper when nil
    builds,       \* number of reflectx.NewMapperFunc calls so far (mapper identity)
    mprMu,        \* holder of the mutex mprMu, 0 when free
    mpc,          \* per goroutine: position inside mapper()
    mret,         \* per goroutine: the mapper its last mapper() call returned
    mcall,        \* per goroutine: NameMapper when its mapper() call started
    mdirty,       \* per goroutine: NameMapper was replaced during its call
    mstale,       \* per goroutine: NameMapper was replaced since its call started
    handles,      \* the DB, Tx, Stmt, Rows and Row values created so far
    pc,           \* position of the scanAll invocation
    dest,         \* scanAll's dest argument: [kind, elem, isPtr]
    structOnly,   \* scanAll's structOnly argument
    rows,         \* scanAll's rows argument, the cursor
    direct,       \* the slice dest points to
    direct0,      \* the slice as it was when scanAll was called
    scannable,    \* local scannable
    columns,      \* local columns
    fields,       \* local fields, one traversal per column
    values,       \* local values, the row buffer
    vp,           \* local vp, the address of the element of the current row
    heap,         \* the elements allocated so far, by address
    m,            \* local m, the mapper that resolved the columns
    err,          \* the error scanAll returned
    calls,        \* how often Columns, Next and Scan were called on the cursor
    pos,          \* number of rows the cursor has delivered
    decoded,      \* the rows whose Scan succeeded, in order
    rowsErr,      \* how often rows.Err() was called and what it reported
    sel,          \* position of the DB.Select invocation
    opened,       \* cursors db.Query has returned to Select
    closed,       \* calls of rows.Close()
    selErr,       \* the error Select returned
    wire          \* the last call that reached the wrapped sqlk DB, Tx or Stmt

mapVars  == <<NameMapper, origMapper, mpr, builds>>
procVars == <<mprMu, mpc, mret, mcall, mdirty, mstale>>
hVars    == <<handles>>
scanVars == <<pc, dest, structOnly, rows, direct, direct0, scannable, columns,
              fields, values, vp, heap, m, err, calls, pos, decoded, rowsErr>>
selVars  == <<sel, opened, closed, selErr>>
wireVars == <<wire>>

-----------------------------------------------------------------------------
(* Bounds *)

\* mappers that may be constructed in one behaviour
MaxMappers == 3
\* goroutines calling mapper() concurrently
NumProcs == 2
\* wrapper values (DB, Tx, Stmt, Rows, Row) alive at once
MaxHandles == 4
\* rows a cursor delivers at most
MaxRows == 2
\* columns a cursor has at most
MaxCols == 3
\* elements in the destination slice before the scan
MaxInit == 1
\* arguments a caller passes to Exec, Query or QueryRow
MaxArgs == 2

Procs == 1..NumProcs

-----------------------------------------------------------------------------
(* Name mapping funcs.  A func value is identified by its name: Go compares *)
(* reflect.ValueOf(f) by the func's code pointer.                           *)

NameFuncs == {"ToLower", "ToUpper"}

\* strings.ToLower on the declared names
ToLower(n) ==
    CASE n = "A" -> "a"
      [] n = "B" -> "b"
      [] n = "C" -> "c"
      [] n = "V" -> "v"
      [] OTHER   -> n

\* strings.ToUpper on the declared names
ToUpper(n) ==
    CASE n = "hidden" -> "HIDDEN"
      [] OTHER        -> n

\* applying the func value f to a declared field name
ApplyNameFunc(f, n) == IF f = "ToLower" THEN ToLower(n) ELSE ToUpper(n)

\* a nil *reflectx.Mapper
NoMapper == [id |-> 0, fn |-> "nil"]

\* reflectx.NewMapperFunc("db", f): the id-th mapper constructed, built from f
NewMapperFunc(id, f) == [id |-> id, fn |-> f]

-----------------------------------------------------------------------------
(* mapper(), one uninterrupted call (the body runs under mprMu) *)

\* the call constructs a mapper: mpr is nil, or NameMapper differs from origMapper
mapperBuilds(nm, om, mp) == mp = NoMapper \/ om # nm

\* mpr after the call
mapperMpr(nm, om, mp, n) ==
    IF mp = NoMapper THEN NewMapperFunc(n + 1, nm)
    ELSE IF om # nm THEN NewMapperFunc(n + 1, nm)
    ELSE mp

\* origMapper after the call: only the else-if branch stores it
mapperOrig(nm, om, mp) ==
    IF mp = NoMapper THEN om
    ELSE IF om # nm THEN nm
    ELSE om

\* number of mappers constructed after the call
mapperCount(nm, om, mp, n) == IF mapperBuilds(nm, om, mp) THEN n + 1 ELSE n

-----------------------------------------------------------------------------
(* mapper(), step by step, called from several goroutines *)

\* user code assigns NameMapper = f (no lock is taken)
SetNameMapper(f) ==
    /\ f # NameMapper
    /\ NameMapper' = f
    /\ mdirty' = [p \in Procs |-> IF mpc[p] \in {"idle", "done"} THEN mdirty[p] ELSE TRUE]
    /\ mstale' = [p \in Procs |-> mpc[p] # "idle"]
    /\ UNCHANGED <<origMapper, mpr, builds, mprMu, mpc, mret, mcall, hVars, scanVars, selVars, wireVars>>

\* mprMu.Lock()
mapperLock(p) ==
    /\ mpc[p] \in {"idle", "done"}
    /\ mprMu = 0
    /\ mprMu' = p
    /\ mpc' = [mpc EXCEPT ![p] = "check"]
    /\ mret' = [mret EXCEPT ![p] = NoMapper]
    /\ mcall' = [mcall EXCEPT ![p] = NameMapper]
    /\ mdirty' = [mdirty EXCEPT ![p] = FALSE]
    /\ mstale' = [mstale EXCEPT ![p] = FALSE]
    /\ UNCHANGED <<mapVars, hVars, scanVars, selVars, wireVars>>

\* if mpr == nil {...} else if origMapper != reflect.ValueOf(NameMapper) {...}
mapperCheck(p) ==
    /\ mpc[p] = "check"
    /\ mpc' = [mpc EXCEPT ![p] =
                 IF mpr = NoMapper THEN "new"
                 ELSE IF origMapper # NameMapper THEN "renew"
                 ELSE "unlock"]
    /\ UNCHANGED <<mapVars, mprMu, mret, mcall, mdirty, mstale, hVars, scanVars, selVars, wireVars>>

\* mpr = reflectx.NewMapperFunc("db", NameMapper)   (mpr was nil)
mapperNew(p) ==
    /\ mpc[p] = "new"
    /\ builds < MaxMappers
    /\ mpr' = NewMapperFunc(builds + 1, NameMapper)
    /\ builds' = builds + 1
    /\ mpc' = [mpc EXCEPT ![p] = "unlock"]
    /\ UNCHANGED <<NameMapper, origMapper, mprMu, mret, mcall, mdirty, mstale, hVars, scanVars, selVars, wireVars>>

\* mpr = reflectx.NewMapperFunc("db", NameMapper)   (NameMapper has changed)
mapperRenew(p) ==
    /\ mpc[p] = "renew"
    /\ builds < MaxMappers
    /\ mpr' = NewMapperFunc(builds + 1, NameMapper)
    /\ builds' = builds + 1
    /\ mpc' = [mpc EXCEPT ![p] = "store"]
    /\ UNCHANGED <<NameMapper, origMapper, mprMu, mret, mcall, mdirty, mstale, hVars, scanVars, selVars, wireVars>>

\* origMapper = reflect.ValueOf(NameMapper)
mapperStore(p) ==
    /\ mpc[p] = "store"
    /\ origMapper' = NameMapper
    /\ mpc' = [mpc EXCEPT ![p] = "unlock"]
    /\ UNCHANGED <<NameMapper, mpr, builds, mprMu, mret, mcall, mdirty, mstale, hVars, scanVars, selVars, wireVars>>

\* return mpr, with the deferred mprMu.Unlock()
mapperReturn(p) ==
    /\ mpc[p] = "unlock"
    /\ mret' = [mret EXCEPT ![p] = mpr]
    /\ mprMu' = 0
    /\ mpc' = [mpc EXCEPT ![p] = "done"]
    /\ UNCHANGED <<mapVars, mcall, mdirty, mstale, hVars, scanVars, selVars, wireVars>>


-----------------------------------------------------------------------------
(* Arguments of Exec, Query and QueryRow.  The caller's args ...interface{} *)
(* is a slice of values; what reaches the wrapped call is a list of        *)
(* arguments, each a single value or a slice.                              *)

ArgVals == {1, 2}

\* the argument lists a caller may pass
ArgLists == UNION {[1..n -> ArgVals] : n \in 0..MaxArgs}

Scalar(x) == [kind |-> "value", v |-> x, items |-> <<>>]
Slice(xs) == [kind |-> "slice", v |-> 0, items |-> xs]

\* f(ctx, args...): every element of args is an argument of its own
spread(args) == [i \in 1..Len(args) |-> Scalar(args[i])]

\* f(ctx, args): the slice args is the one argument
asOne(args) == <<Slice(args)>>

\* a call of method op on the wrapped value of an sqlx value of kind on: the
\* caller passed given, the wrapped call receives got
Call(on, op, given, got) == [on |-> on, op |-> op, given |-> given, got |-> got]

NoCall == Call("none", "none", <<>>, <<>>)

-----------------------------------------------------------------------------
(* The wrappers.  A value is [kind, conn, unsafe, Mapper, err]; lenient is *)
(* history: the value was reached through a DB returned by Unsafe().       *)

Handle(kind, conn, unsafe, mp, e, lenient) ==
    [kind |-> kind, conn |-> conn, unsafe |-> unsafe, Mapper |-> mp,
     err |-> e, lenient |-> lenient]

OfKind(k) == {h \in handles : h.kind = k}

\* room for one more value
CanAdd == Cardinality(handles) < MaxHandles

\* isUnsafe without the cases for Rows and *Rows
isUnsafeNoRows(h) ==
    IF h.kind \in {"Row", "Stmt", "DB", "Tx"} THEN h.unsafe ELSE FALSE

\* isUnsafe(i): the unsafe field of the sqlx types, false for anything else
isUnsafe(h) ==
    IF h.kind \in {"Row", "Rows", "Stmt", "DB", "Tx"} THEN h.unsafe ELSE FALSE

\* mapperFor(i) for a DB or Tx: its Mapper field
mapperFor(h) == h.Mapper

\* Open building the DB with unsafe set
OpenDBUnsafe(mp) == Handle("DB", "pool", TRUE, mp, "nil", FALSE)

\* &DB{DB: db, driverName: "mysql", Mapper: mapper()}
OpenDB(mp) == Handle("DB", "pool", FALSE, mp, "nil", FALSE)

\* &Tx{Tx: tx, driverName: db.driverName, unsafe: db.unsafe, Mapper: db.Mapper}
BeginTx(db) == Handle("Tx", "tx", db.unsafe, db.Mapper, "nil", db.lenient)

\* &Stmt{Stmt: s, unsafe: isUnsafe(db), Mapper: mapperFor(db)}
PrepareStmt(h) == Handle("Stmt", "stmt", isUnsafe(h), mapperFor(h), "nil", h.lenient)

\* &Rows{Rows: r, unsafe: h.unsafe, Mapper: h.Mapper}
QueryRows(h) == Handle("Rows", "rows", h.unsafe, h.Mapper, "nil", h.lenient)

\* &Row{Rows: row, err: err, unsafe: h.unsafe, Mapper: h.Mapper}
QueryRowRow(h, e) == Handle("Row", "rows", h.unsafe, h.Mapper, e, h.lenient)

\* &DB{DB: db.DB.Master(), driverName: db.driverName, unsafe: db.unsafe, Mapper: db.Mapper}
MasterDB(db) == Handle("DB", "master", db.unsafe, db.Mapper, "nil", db.lenient)

\* &DB{DB: db.DB, driverName: db.driverName, unsafe: true, Mapper: db.Mapper}
UnsafeDB(db) == Handle("DB", db.conn, TRUE, db.Mapper, "nil", TRUE)

\* &Stmt{Stmt: tx.Tx.Stmt(s), Mapper: tx.Mapper}: unsafe is left at its zero value
TxStmtStmt(tx, viaLenient) == Handle("Stmt", "stmt", FALSE, tx.Mapper, "nil", viaLenient)

\* Open: the mapper() call and the new DB (a failed sqlk.Open or Ping returns
\* before mapper() is called and changes nothing)
Open ==
    /\ CanAdd
    /\ mprMu = 0
    /\ mapperBuilds(NameMapper, origMapper, mpr) => builds < MaxMappers
    /\ mpr' = mapperMpr(NameMapper, origMapper, mpr, builds)
    /\ origMapper' = mapperOrig(NameMapper, origMapper, mpr)
    /\ builds' = mapperCount(NameMapper, origMapper, mpr, builds)
    /\ handles' = handles \cup {OpenDB(mpr')}
    /\ UNCHANGED <<NameMapper, procVars, scanVars, selVars, wireVars>>

\* the methods below return (nil, err) and change nothing when the wrapped
\* call fails; the successful return is modelled

DBBegin(db) ==
    /\ CanAdd /\ db \in OfKind("DB")
    /\ handles' = handles \cup {BeginTx(db)}
    /\ UNCHANGED <<mapVars, procVars, scanVars, selVars, wireVars>>

DBPrepare(db) ==
    /\ CanAdd /\ db \in OfKind("DB")
    /\ handles' = handles \cup {PrepareStmt(db)}
    /\ UNCHANGED <<mapVars, procVars, scanVars, selVars, wireVars>>

DBPrepared(db) ==
    /\ CanAdd /\ db \in OfKind("DB")
    /\ handles' = handles \cup {PrepareStmt(db)}
    /\ UNCHANGED <<mapVars, procVars, scanVars, selVars, wireVars>>

\* DB.Exec: return db.DB.Exec(ctx, query, args...)
DBExec(db, args) ==
    /\ db \in OfKind("DB")
    /\ wire' = Call("DB", "Exec", args, spread(args))
    /\ UNCHANGED <<mapVars, procVars, hVars, scanVars, selVars>>

\* DB.Query: r, err := db.DB.Query(ctx, query, args...)
DBQuery(db, args) ==
    /\ CanAdd /\ db \in OfKind("DB")
    /\ wire' = Call("DB", "Query", args, spread(args))
    /\ handles' = handles \cup {QueryRows(db)}
    /\ UNCHANGED <<mapVars, procVars, scanVars, selVars>>

\* DB.QueryRow: row, err := db.DB.Query(ctx, query, args...)
DBQueryRow(db, args, e) ==
    /\ CanAdd /\ db \in OfKind("DB")
    /\ wire' = Call("DB", "Query", args, spread(args))
    /\ handles' = handles \cup {QueryRowRow(db, e)}
    /\ UNCHANGED <<mapVars, procVars, scanVars, selVars>>

DBMaster(db) ==
    /\ CanAdd /\ db \in OfKind("DB")
    /\ handles' = handles \cup {MasterDB(db)}
    /\ UNCHANGED <<mapVars, procVars, scanVars, selVars, wireVars>>

DBUnsafe(db) ==
    /\ CanAdd /\ db \in OfKind("DB")
    /\ handles' = handles \cup {UnsafeDB(db)}
    /\ UNCHANGED <<mapVars, procVars, scanVars, selVars, wireVars>>

\* Tx.Exec: return tx.Tx.Exec(query, args...)
TxExec(tx, args) ==
    /\ tx \in OfKind("Tx")
    /\ wire' = Call("Tx", "Exec", args, spread(args))
    /\ UNCHANGED <<mapVars, procVars, hVars, scanVars, selVars>>

\* Tx.Query: r, err := tx.Tx.Query(query, args...)
TxQuery(tx, args) ==
    /\ CanAdd /\ tx \in OfKind("Tx")
    /\ wire' = Call("Tx", "Query", args, spread(args))
    /\ handles' = handles \cup {QueryRows(tx)}
    /\ UNCHANGED <<mapVars, procVars, scanVars, selVars>>

\* Tx.QueryRow: row, err := tx.Tx.Query(query, args...)
TxQueryRow(tx, args, e) ==
    /\ CanAdd /\ tx \in OfKind("Tx")
    /\ wire' = Call("Tx", "Query", args, spread(args))
    /\ handles' = handles \cup {QueryRowRow(tx, e)}
    /\ UNCHANGED <<mapVars, procVars, scanVars, selVars>>

\* Tx.Stmt(stmt) with stmt a Stmt or *Stmt of the model
TxStmt(tx, stmt) ==
    /\ CanAdd /\ tx \in OfKind("Tx") /\ stmt \in OfKind("Stmt")
    /\ handles' = handles \cup {TxStmtStmt(tx, tx.lenient \/ stmt.lenient)}
    /\ UNCHANGED <<mapVars, procVars, scanVars, selVars, wireVars>>

\* Tx.Stmt(stmt) with stmt a bare *sqlk.Stmt
TxStmtRaw(tx) ==
    /\ CanAdd /\ tx \in OfKind("Tx")
    /\ handles' = handles \cup {TxStmtStmt(tx, tx.lenient)}
    /\ UNCHANGED <<mapVars, procVars, scanVars, selVars, wireVars>>

TxPrepare(tx) ==
    /\ CanAdd /\ tx \in OfKind("Tx")
    /\ handles' = handles \cup {PrepareStmt(tx)}
    /\ UNCHANGED <<mapVars, procVars, scanVars, selVars, wireVars>>

\* Stmt.Exec: return s.Stmt.Exec(c, args)
StmtExec(s, args) ==
    /\ s \in OfKind("Stmt")
    /\ wire' = Call("Stmt", "Exec", args, asOne(args))
    /\ UNCHANGED <<mapVars, procVars, hVars, scanVars, selVars>>

\* Stmt.Query: rs, err := s.Stmt.Query(c, args)
StmtQuery(s, args) ==
    /\ CanAdd /\ s \in OfKind("Stmt")
    /\ wire' = Call("Stmt", "Query", args, asOne(args))
    /\ handles' = handles \cup {QueryRows(s)}
    /\ UNCHANGED <<mapVars, procVars, scanVars, selVars>>

\* Stmt.QueryRow: r, err := s.Stmt.Query(c, args)
StmtQueryRow(s, args, e) ==
    /\ CanAdd /\ s \in OfKind("Stmt")
    /\ wire' = Call("Stmt", "Query", args, asOne(args))
    /\ handles' = handles \cup {QueryRowRow(s, e)}
    /\ UNCHANGED <<mapVars, procVars, scanVars, selVars>>

\* what a failed query leaves in Row.err
QueryErrs == {"nil", "QueryError"}

\* the placeholder arguments of a query where the arguments are not looked at
QueryArgs == {<<1>>}

-----------------------------------------------------------------------------
(* Element types.  "int" is a primitive; "NullInt" is a struct with an     *)
(* exported field whose pointer implements sql.Scanner; "Empty" is a       *)
(* struct with only an unexported field; "Person" is                       *)
(*     struct { A int; Inner }   with   Inner = struct { B int; C int }    *)

ElemTypes == {"int", "NullInt", "Empty", "Person"}

\* t.Kind()
Kind(t) == IF t = "int" THEN "int" ELSE "struct"

\* reflect.PtrTo(t).Implements(_scannerInterface)
ImplementsScanner(t) == t = "NullInt"

Field(name, exported, embedded, type) ==
    [name |-> name, exported |-> exported, embedded |-> embedded, type |-> type]

\* the declared fields of a struct type, in declaration order
StructFields(t) ==
    CASE t = "Person"  -> <<Field("A", TRUE, FALSE, "int"), Field("Inner", TRUE, TRUE, "Inner")>>
      [] t = "Inner"   -> <<Field("B", TRUE, FALSE, "int"), Field("C", TRUE, FALSE, "int")>>
      [] t = "NullInt" -> <<Field("V", TRUE, FALSE, "int")>>
      [] t = "Empty"   -> <<Field("hidden", FALSE, FALSE, "int")>>
      [] OTHER         -> <<>>

\* The structure map of a struct type under name func fn: its mapped fields
\* in declaration order, each with its canonical name and traversal path
\* (0-based field positions).  An embedded struct without the scanner
\* capability is walked with the field's position as prefix; unexported
\* fields are left out.
RECURSIVE WalkFrom(_, _, _, _)
WalkFrom(fn, t, prefix, i) ==
    IF i > Len(StructFields(t)) THEN <<>>
    ELSE LET f    == StructFields(t)[i]
             p    == Append(prefix, i - 1)
             here == IF ~f.exported THEN <<>>
                     ELSE IF f.embedded /\ Kind(f.type) = "struct" /\ ~ImplementsScanner(f.type)
                          THEN WalkFrom(fn, f.type, p, 1)
                     ELSE <<[name |-> ApplyNameFunc(fn, f.name), path |-> p]>>
         IN  here \o WalkFrom(fn, t, prefix, i + 1)

\* the structure maps of the element types, one per name func: what the
\* Type Structure Cache of a mapper built from fn holds for t
StructureMaps ==
    [fn \in NameFuncs |->
        [t \in ElemTypes |->
            IF Kind(t) = "struct" THEN WalkFrom(fn, t, <<>>, 1) ELSE <<>>]]

\* Mapper.TypeMap(t).Index
TypeMap(mp, t) == StructureMaps[mp.fn][t]

\* the path of the first entry named name, the empty path when there is none
PathOf(tm, name) ==
    LET hits == {i \in 1..Len(tm) : tm[i].name = name}
    IN  IF hits = {} THEN <<>>
        ELSE tm[CHOOSE i \in hits : \A j \in hits : i <= j].path

\* Mapper.TraversalsByName(t, names): one traversal per name, in order
TraversalsByName(mp, t, names) ==
    [i \in 1..Len(names) |-> PathOf(TypeMap(mp, t), names[i])]

\* the paths of the mapped fields of t (they do not depend on the name func)
LeafPaths(t) == {TypeMap(NewMapperFunc(1, "ToLower"), t)[i].path :
                    i \in 1..Len(TypeMap(NewMapperFunc(1, "ToLower"), t))}

-----------------------------------------------------------------------------
(* Values.  An element is a function from paths to cells: a field-mapped   *)
(* struct has one cell per mapped field, anything else the one cell <<>>.  *)

ZeroCell == <<0, "">>

\* what the cursor holds in row r under column c
Cell(r, c) == <<r, c>>

\* reflect.New(base): the zero element of type t, field-mapped or not
ZeroObj(t, asStruct) ==
    IF asStruct THEN [p \in LeafPaths(t) |-> ZeroCell]
    ELSE [p \in {<<>>} |-> ZeroCell]

\* decode targets: a nil interface, new(interface{}), or the address of a
\* field (of the whole element when path is empty)
NilSlot == [kind |-> "nil", obj |-> 0, path |-> <<>>]
DiscardSlot == [kind |-> "discard", obj |-> 0, path |-> <<>>]
FieldSlot(a, p) == [kind |-> "field", obj |-> a, path |-> p]

\* errors
NoErr == [kind |-> "nil", n |-> 0, col |-> ""]
Error(kind, n, col) == [kind |-> kind, n |-> n, col |-> col]

\* the names a cursor's columns are drawn from, and its column lists:
\* no name twice, at most MaxCols
ColNames == {"a", "b", "c", "x"}

ColumnLists ==
    {cs \in UNION {[1..n -> ColNames] : n \in 0..MaxCols} :
        \A i, j \in 1..Len(cs) : cs[i] = cs[j] => i = j}

\* a cursor that is none of the sqlx types (a *sql.Rows, say)
SqlRows == Handle("sqlRows", "rows", FALSE, NoMapper, "nil", FALSE)

\* shapes of the dest argument
DestKinds == {"NotPtr", "NilPtr", "PtrToNonSlice", "PtrToSlice"}

-----------------------------------------------------------------------------
(* scanAll: the checks before the loop *)

\* the checks on dest without baseType's comparison of the kind
destErrNoBaseType(d) ==
    CASE d = "NotPtr" -> Error("InvalidDestination", 0, "must pass a pointer")
      [] d = "NilPtr" -> Error("InvalidDestination", 0, "nil pointer passed")
      [] OTHER        -> NoErr

\* the checks on dest: value.Kind() != reflect.Ptr, value.IsNil(), baseType
destErr(d) ==
    CASE d = "NotPtr"        -> Error("InvalidDestination", 0, "must pass a pointer")
      [] d = "NilPtr"        -> Error("InvalidDestination", 0, "nil pointer passed")
      [] d = "PtrToNonSlice" -> Error("InvalidDestination", 0, "expected slice")
      [] OTHER               -> NoErr

\* isScannable(t) reaches its mapper() call
isScannableCallsMapper(t) == ~ImplementsScanner(t) /\ Kind(t) = "struct"

\* isScannable deciding on the structure alone, without the scanner test
isScannableByStructure(t, mp) ==
    IF Kind(t) # "struct" THEN TRUE
    ELSE IF LeafPaths(t) = {} THEN TRUE
    ELSE FALSE

\* isScannable(t), with mp the mapper its mapper() call returns
isScannable(t, mp) ==
    IF ImplementsScanner(t) THEN TRUE
    ELSE IF Kind(t) # "struct" THEN TRUE
    ELSE IF Len(TypeMap(mp, t)) = 0 THEN TRUE
    ELSE FALSE

\* the structOnly check with the classification negated
structOnlyFailsNegated(so, sc) == so /\ ~sc

\* if structOnly && scannable
structOnlyFails(so, sc) == so /\ sc

\* structOnlyError(t)
structOnlyError(t) ==
    IF Kind(t) # "struct" THEN Error("StructOnlyViolation", 0, "expected struct")
    ELSE IF ImplementsScanner(t) THEN Error("StructOnlyViolation", 0, "implements scanner")
    ELSE Error("StructOnlyViolation", 0, "no exported fields")

\* if scannable && len(columns) > 1
shapeMismatch(sc, cols) == sc /\ Len(cols) > 1

\* missingFields(traversals): the first empty traversal (1-based) and an
\* error, or 0 and no error
missingFields(ts) ==
    LET empty == {i \in 1..Len(ts) : Len(ts[i]) = 0}
    IN  IF empty = {} THEN [field |-> 0, err |-> FALSE]
        ELSE [field |-> CHOOSE i \in empty : \A j \in empty : i <= j, err |-> TRUE]

\* the missing field check with the unsafe test negated
missingFieldFailsNegated(ts, r) ==
    LET empty == {i \in 1..Len(ts) : Len(ts[i]) = 0} IN empty # {} /\ isUnsafe(r)

\* the missing field check without the unsafe test
missingFieldFailsAlways(ts, r) ==
    LET empty == {i \in 1..Len(ts) : Len(ts[i]) = 0} IN empty # {}

\* if f, err := missingFields(fields); err != nil && !isUnsafe(rows)
missingFieldFails(ts, r) == missingFields(ts).err /\ ~isUnsafe(r)

\* fieldsByTraversal binding slot i by the traversal of the mirrored position
fieldsByTraversalMirrored(a, ts, vals) ==
    [i \in 1..Len(vals) |->
        IF i > Len(ts) THEN vals[i]
        ELSE IF Len(ts[Len(ts) + 1 - i]) = 0 THEN DiscardSlot
        ELSE FieldSlot(a, ts[Len(ts) + 1 - i])]

\* fieldsByTraversal leaving a slot that an earlier row has bound as it is
fieldsByTraversalOnce(a, ts, vals) ==
    [i \in 1..Len(vals) |->
        IF i > Len(ts) THEN vals[i]
        ELSE IF vals[i] # NilSlot THEN vals[i]
        ELSE IF Len(ts[i]) = 0 THEN DiscardSlot
        ELSE FieldSlot(a, ts[i])]

\* fieldsByTraversal(v, traversals, values, true) with v the element at
\* address a: slot i becomes new(interface{}) for an empty traversal and the
\* address of the field reached by traversal i otherwise
fieldsByTraversal(a, ts, vals) ==
    [i \in 1..Len(vals) |->
        IF i > Len(ts) THEN vals[i]
        ELSE IF Len(ts[i]) = 0 THEN DiscardSlot
        ELSE FieldSlot(a, ts[i])]

\* fieldsByTraversal's "argument not a struct"
fieldsByTraversalErr(t) == Kind(t) # "struct"

\* rows.Scan(slots...) on row r: every slot that is a field address receives
\* the cell of its column; what goes to new(interface{}) is dropped
ScanInto(hp, slots, r, cols) ==
    [a \in 1..Len(hp) |->
        [p \in DOMAIN hp[a] |->
            LET hit == {i \in 1..Len(slots) : slots[i] = FieldSlot(a, p)}
            IN  IF hit = {} THEN hp[a][p]
                ELSE Cell(r, cols[CHOOSE i \in hit : \A j \in hit : j <= i])]]

\* elements of the slice: a copy of the element, or its address
ByVal(obj) == [ref |-> 0, val |-> obj]
ByRef(a) == [ref |-> a, val |-> <<>>]

\* the append taking the first element allocated instead of the current one
appendElemFirst(isPtr, a, hp) == IF isPtr THEN ByRef(1) ELSE ByVal(hp[1])

\* reflect.Append(direct, vp) or reflect.Append(direct, v)
appendElem(isPtr, a, hp) == IF isPtr THEN ByRef(a) ELSE ByVal(hp[a])

\* what an element of the slice holds now
ElemValue(e) == IF e.ref = 0 THEN e.val ELSE heap[e.ref]

\* the cursors scanAll may be handed: a foreign one, a *Rows of the model,
\* or the *Rows a Query on a DB, Tx or Stmt of the model returns
Cursors ==
    {SqlRows} \cup OfKind("Rows")
        \cup {QueryRows(h) : h \in {x \in handles : x.kind \in {"DB", "Tx", "Stmt"}}}

Return(e) == pc' = "done" /\ err' = e

\* scanAll(rows, dest, structOnly) up to the structOnly check.  dest is of
\* shape d; when it points to a slice, the slice has element type t or *t
\* (ptr) and n0 elements.
scanAllBegin(r, d, t, ptr, n0, so) ==
    /\ pc = "idle"
    /\ mprMu = 0
    /\ d # "PtrToSlice" => (t = "int" /\ ~ptr /\ n0 = 0)
    /\ LET bad    == destErr(d) # NoErr
           viaMpr == ~bad /\ isScannableCallsMapper(t)
           mp     == IF viaMpr THEN mapperMpr(NameMapper, origMapper, mpr, builds) ELSE mpr
           sc     == ~bad /\ isScannable(t, mp)
           old    == [i \in 1..n0 |-> IF ptr THEN ByRef(i) ELSE ByVal(ZeroObj(t, ~sc))]
       IN  /\ (viaMpr /\ mapperBuilds(NameMapper, origMapper, mpr)) => builds < MaxMappers
           /\ mpr' = mp
           /\ origMapper' = IF viaMpr THEN mapperOrig(NameMapper, origMapper, mpr) ELSE origMapper
           /\ builds' = IF viaMpr THEN mapperCount(NameMapper, origMapper, mpr, builds) ELSE builds
           /\ dest' = [kind |-> d, elem |-> t, isPtr |-> ptr]
           /\ structOnly' = so
           /\ rows' = r
           /\ scannable' = sc
           /\ heap' = IF ptr THEN [i \in 1..n0 |-> ZeroObj(t, ~sc)] ELSE <<>>
           /\ direct0' = old
           /\ direct' = old
           /\ IF bad THEN Return(destErr(d))
              ELSE IF structOnlyFails(so, sc) THEN Return(structOnlyError(t))
              ELSE pc' = "columns" /\ err' = NoErr
    /\ UNCHANGED <<NameMapper, procVars, hVars, columns, fields, values, vp, m,
                   calls, pos, decoded, rowsErr>>

\* scanAll called on a cursor the caller holds
scanAllEnter(r, d, t, ptr, n0, so) ==
    /\ sel = "idle"
    /\ scanAllBegin(r, d, t, ptr, n0, so)
    /\ UNCHANGED <<selVars, wireVars>>

\* rows.Close() placed after scanAll and skipped when scanAll fails
closeOnSuccessOnly(e) == e = NoErr

\* defer rows.Close(): the cursor is closed whatever scanAll returns
deferredClose(e) == TRUE

\* DB.Select: db.Query, and on success the call scanAll(rows, dest, false)
\* up to scanAll's structOnly check
DBSelect(db, args, qok, d, t, ptr, n0) ==
    /\ sel = "idle" /\ pc = "idle"
    /\ db \in OfKind("DB")
    /\ wire' = Call("DB", "Query", args, spread(args))
    /\ IF qok
       THEN /\ opened' = opened + 1
            /\ sel' = "scanning"
            /\ UNCHANGED <<closed, selErr>>
            /\ scanAllBegin(QueryRows(db), d, t, ptr, n0, FALSE)
       ELSE /\ sel' = "returned"
            /\ selErr' = Error("QueryError", 0, "")
            /\ UNCHANGED <<opened, closed, mapVars, procVars, hVars, scanVars>>

\* DB.Select returns what scanAll returned, after the deferred rows.Close()
DBSelectReturn ==
    /\ sel = "scanning" /\ pc = "done"
    /\ closed' = IF deferredClose(err) THEN closed + 1 ELSE closed
    /\ sel' = "returned"
    /\ selErr' = err
    /\ UNCHANGED <<opened, mapVars, procVars, hVars, scanVars, wireVars>>

\* columns, err := rows.Columns() and the column count check
scanAllColumns(ok, cols) ==
    /\ pc = "columns"
    /\ calls' = [calls EXCEPT !.columns = @ + 1]
    /\ IF ~ok THEN Return(Error("CursorError", 0, "Columns")) /\ columns' = columns
       ELSE IF shapeMismatch(scannable, cols)
            THEN Return(Error("ShapeMismatch", Len(cols), "")) /\ columns' = cols
       ELSE /\ columns' = cols
            /\ pc' = IF scannable THEN "nextScalar" ELSE "resolve"
            /\ err' = err
    /\ UNCHANGED <<mapVars, procVars, hVars, selVars, wireVars, rowsErr, dest, structOnly, rows, direct, direct0,
                   scannable, fields, values, vp, heap, m, pos, decoded>>

\* the mapper choice, TraversalsByName, the missing field check, make(values)
scanAllResolve ==
    /\ pc = "resolve"
    /\ mprMu = 0
    /\ LET own == rows.kind = "Rows"
           mm  == IF own THEN rows.Mapper
                  ELSE mapperMpr(NameMapper, origMapper, mpr, builds)
           ts  == TraversalsByName(mm, dest.elem, columns)
       IN  /\ (~own /\ mapperBuilds(NameMapper, origMapper, mpr)) => builds < MaxMappers
           /\ mpr' = IF own THEN mpr ELSE mm
           /\ origMapper' = IF own THEN origMapper
                            ELSE mapperOrig(NameMapper, origMapper, mpr)
           /\ builds' = IF own THEN builds
                        ELSE mapperCount(NameMapper, origMapper, mpr, builds)
           /\ m' = mm
           /\ fields' = ts
           /\ IF missingFieldFails(ts, rows)
              THEN /\ Return(Error("MissingField", 0, columns[missingFields(ts).field]))
                   /\ values' = values
              ELSE /\ values' = [i \in 1..Len(columns) |-> NilSlot]
                   /\ pc' = "next"
                   /\ err' = err
    /\ UNCHANGED <<NameMapper, procVars, hVars, selVars, wireVars, rowsErr, dest, structOnly, rows, direct, direct0,
                   scannable, columns, vp, heap, calls, pos, decoded>>

-----------------------------------------------------------------------------
(* scanAll: the loop over the rows of a field-mapped element type *)

\* for rows.Next()
scanAllNext(more) ==
    /\ pc = "next"
    /\ more => pos < MaxRows
    /\ calls' = [calls EXCEPT !.next = @ + 1]
    /\ pos' = IF more THEN pos + 1 ELSE pos
    /\ pc' = IF more THEN "bind" ELSE "err"
    /\ UNCHANGED <<mapVars, procVars, hVars, selVars, wireVars, rowsErr, dest, structOnly, rows, direct, direct0,
                   scannable, columns, fields, values, vp, heap, m, err, decoded>>

\* vp = reflect.New(base); v = reflect.Indirect(vp); fieldsByTraversal(...)
scanAllBind ==
    /\ pc = "bind"
    /\ heap' = Append(heap, ZeroObj(dest.elem, TRUE))
    /\ vp' = Len(heap) + 1
    /\ IF fieldsByTraversalErr(dest.elem)
       THEN Return(Error("NotAStruct", 0, "argument not a struct")) /\ values' = values
       ELSE /\ values' = fieldsByTraversal(Len(heap) + 1, fields, values)
            /\ pc' = "scan"
            /\ err' = err
    /\ UNCHANGED <<mapVars, procVars, hVars, selVars, wireVars, rowsErr, dest, structOnly, rows, direct, direct0,
                   scannable, columns, fields, m, calls, pos, decoded>>

\* the loop going on after a failed Scan
afterScanGoesOn(ok, next) == next

\* if err != nil { return err }: after a failed Scan scanAll returns,
\* otherwise it goes on to the append at next
afterScan(ok, next) == IF ok THEN next ELSE "done"

\* err = rows.Scan(values...); if err != nil { return err }
scanAllScan(ok) ==
    /\ pc = "scan"
    /\ calls' = [calls EXCEPT !.scan = @ + 1]
    /\ heap' = IF ok THEN ScanInto(heap, values, pos, columns) ELSE heap
    /\ decoded' = IF ok THEN Append(decoded, pos) ELSE decoded
    /\ pc' = afterScan(ok, "append")
    /\ err' = IF ok THEN err ELSE Error("DecodeError", pos, "")
    /\ UNCHANGED <<mapVars, procVars, hVars, selVars, wireVars, rowsErr, dest, structOnly, rows, direct, direct0,
                   scannable, columns, fields, values, vp, m, pos>>

\* direct.Set(reflect.Append(direct, vp)) or (direct, v)
scanAllAppend ==
    /\ pc = "append"
    /\ direct' = Append(direct, appendElem(dest.isPtr, vp, heap))
    /\ pc' = "next"
    /\ UNCHANGED <<mapVars, procVars, hVars, selVars, wireVars, rowsErr, dest, structOnly, rows, direct0,
                   scannable, columns, fields, values, vp, heap, m, err, calls, pos,
                   decoded>>

-----------------------------------------------------------------------------
(* scanAll: the loop over the rows of a scannable element type *)

\* for rows.Next()
scanAllNextScalar(more) ==
    /\ pc = "nextScalar"
    /\ more => pos < MaxRows
    /\ calls' = [calls EXCEPT !.next = @ + 1]
    /\ pos' = IF more THEN pos + 1 ELSE pos
    /\ pc' = IF more THEN "scanScalar" ELSE "err"
    /\ UNCHANGED <<mapVars, procVars, hVars, selVars, wireVars, rowsErr, dest, structOnly, rows, direct, direct0,
                   scannable, columns, fields, values, vp, heap, m, err, decoded>>

\* the cursor's Scan with one destination: it fails on its own account (ok
\* false), and database/sql fails it when the cursor has not one column
scanOneColumn(ok, cols) == ok /\ Len(cols) = 1

\* vp = reflect.New(base); err = rows.Scan(vp.Interface())
scanAllScanScalar(ok) ==
    /\ pc = "scanScalar"
    /\ calls' = [calls EXCEPT !.scan = @ + 1]
    /\ vp' = Len(heap) + 1
    /\ LET good == scanOneColumn(ok, columns)
           new  == Append(heap, ZeroObj(dest.elem, FALSE))
       IN  /\ heap' = IF good
                      THEN ScanInto(new, <<FieldSlot(Len(heap) + 1, <<>>)>>, pos, columns)
                      ELSE new
           /\ decoded' = IF good THEN Append(decoded, pos) ELSE decoded
           /\ pc' = afterScan(good, "appendScalar")
           /\ err' = IF good THEN err ELSE Error("DecodeError", pos, "")
    /\ UNCHANGED <<mapVars, procVars, hVars, selVars, wireVars, rowsErr, dest, structOnly, rows, direct, direct0,
                   scannable, columns, fields, values, m, pos>>

\* direct.Set(reflect.Append(direct, vp)) or (direct, reflect.Indirect(vp))
scanAllAppendScalar ==
    /\ pc = "appendScalar"
    /\ direct' = Append(direct, appendElem(dest.isPtr, vp, heap))
    /\ pc' = "nextScalar"
    /\ UNCHANGED <<mapVars, procVars, hVars, selVars, wireVars, rowsErr, dest, structOnly, rows, direct0,
                   scannable, columns, fields, values, vp, heap, m, err, calls, pos,
                   decoded>>

\* a return that drops the cursor's error
finalReturnNil(e) == NoErr

\* return rows.Err(): what the cursor reports is returned as it is
finalReturn(e) == e

\* return rows.Err(), with e what the cursor reports
scanAllErr(e) ==
    /\ pc = "err"
    /\ rowsErr' = [asked |-> rowsErr.asked + 1, err |-> e]
    /\ Return(finalReturn(e))
    /\ UNCHANGED <<mapVars, procVars, hVars, selVars, wireVars, dest, structOnly, rows, direct, direct0,
                   scannable, columns, fields, values, vp, heap, m, calls, pos, decoded>>

\* what rows.Err() may report
IterErrs == {NoErr, Error("CursorError", 0, "Err")}

-----------------------------------------------------------------------------
(* DB.Get: QueryRow and the single-result scan of the Row (scanOne).  The  *)
(* destination is the one object at address 1 of the heap.                 *)

\* shapes of Get's dest argument: a reference to a single composite or scalar
GetDestKinds == {"NotPtr", "NilPtr", "PtrToSingle"}

\* the checks on the destination of a single-result scan
scanAnyDestErr(d) ==
    CASE d = "NotPtr" -> Error("InvalidDestination", 0, "must pass a pointer")
      [] d = "NilPtr" -> Error("InvalidDestination", 0, "nil pointer passed")
      [] OTHER        -> NoErr

\* an exhausted cursor treated as in scanAll: its final error, nil or not
emptyRowErrAsScanAll(fin) == fin

\* the cursor has no first row: its final error, or NoRows when it has none
emptyRowErr(fin) == IF fin # NoErr THEN fin ELSE Error("NoRows", 0, "")

\* r.scanAny(dest, false) on the Row r: what it returns and leaves behind.
\* dest is of shape d with target type t, classified sc; the cursor's
\* Columns answers (colsOk, cols), its first Next answers more, its Err
\* answers fin and its Scan answers ok.
scanAny(r, d, t, sc, colsOk, cols, more, fin, ok) ==
    LET zero  == <<ZeroObj(t, ~sc)>>
        ts    == TraversalsByName(r.Mapper, t, cols)
        slots == IF sc THEN <<FieldSlot(1, <<>>)>>
                 ELSE fieldsByTraversal(1, ts, [i \in 1..Len(cols) |-> NilSlot])
        good  == IF sc THEN scanOneColumn(ok, cols) ELSE ok
        start == [err |-> NoErr, heap |-> zero, columns |-> <<>>, fields |-> <<>>,
                  values |-> <<>>, m |-> NoMapper, pos |-> 0, decoded |-> <<>>,
                  calls |-> [columns |-> 0, next |-> 0, scan |-> 0]]
        atCol == [start EXCEPT !.calls.columns = 1]
        atRes == IF sc THEN [atCol EXCEPT !.columns = cols]
                 ELSE [atCol EXCEPT !.columns = cols, !.fields = ts, !.m = r.Mapper]
        atNxt == [atRes EXCEPT !.calls.next = 1]
    IN  IF r.err # "nil" THEN [start EXCEPT !.err = Error(r.err, 0, ""), !.heap = <<>>]
        ELSE IF scanAnyDestErr(d) # NoErr
             THEN [start EXCEPT !.err = scanAnyDestErr(d), !.heap = <<>>]
        ELSE IF ~colsOk THEN [atCol EXCEPT !.err = Error("CursorError", 0, "Columns")]
        ELSE IF shapeMismatch(sc, cols)
             THEN [atCol EXCEPT !.err = Error("ShapeMismatch", Len(cols), ""),
                                !.columns = cols]
        ELSE IF ~sc /\ missingFieldFails(ts, r)
             THEN [atRes EXCEPT !.err = Error("MissingField", 0, cols[missingFields(ts).field])]
        ELSE IF ~more THEN [atNxt EXCEPT !.err = emptyRowErr(fin)]
        ELSE IF ~good
             THEN [atNxt EXCEPT !.err = Error("DecodeError", 1, ""), !.pos = 1,
                                !.values = slots, !.calls.scan = 1]
        ELSE [atNxt EXCEPT !.pos = 1, !.values = slots, !.calls.scan = 1,
                           !.decoded = <<1>>,
                           !.heap = ScanInto(zero, slots, 1, cols)]

\* DB.Get: r := db.QueryRow(ctx, query, args...); return r.scanAny(dest, false)
DBGet(db, args, qe, d, t, colsOk, cols, more, fin, ok) ==
    /\ pc = "idle" /\ sel = "idle"
    /\ wire' = Call("DB", "Query", args, spread(args))
    /\ mprMu = 0
    /\ db \in OfKind("DB")
    \* answers of the cursor that are never asked for are left at one value
    /\ (qe # "nil" \/ d # "PtrToSingle") => (t = "int" /\ colsOk /\ cols = <<>>)
    /\ (qe # "nil" \/ d # "PtrToSingle" \/ ~colsOk) => (more /\ ok)
    /\ ~colsOk => cols = <<>>
    /\ more => fin = NoErr
    /\ ~more => ok
    /\ LET r      == QueryRowRow(db, qe)
           bad    == r.err # "nil" \/ scanAnyDestErr(d) # NoErr
           viaMpr == ~bad /\ isScannableCallsMapper(t)
           mp     == IF viaMpr THEN mapperMpr(NameMapper, origMapper, mpr, builds) ELSE mpr
           sc     == ~bad /\ isScannable(t, mp)
           res    == scanAny(r, d, t, sc, colsOk, cols, more, fin, ok)
       IN  /\ (viaMpr /\ mapperBuilds(NameMapper, origMapper, mpr)) => builds < MaxMappers
           /\ mpr' = mp
           /\ origMapper' = IF viaMpr THEN mapperOrig(NameMapper, origMapper, mpr) ELSE origMapper
           /\ builds' = IF viaMpr THEN mapperCount(NameMapper, origMapper, mpr, builds) ELSE builds
           /\ dest' = [kind |-> d, elem |-> t, isPtr |-> FALSE]
           /\ structOnly' = FALSE
           /\ rows' = r
           /\ scannable' = sc
           /\ heap' = res.heap
           /\ vp' = IF bad THEN vp ELSE 1
           /\ columns' = res.columns
           /\ fields' = res.fields
           /\ values' = res.values
           /\ m' = res.m
           /\ calls' = res.calls
           /\ pos' = res.pos
           /\ decoded' = res.decoded
           /\ rowsErr' = IF res.calls.next = 1 /\ res.pos = 0
                         THEN [asked |-> 1, err |-> fin] ELSE rowsErr
           /\ Return(res.err)
    /\ UNCHANGED <<NameMapper, procVars, hVars, selVars, direct, direct0>>

-----------------------------------------------------------------------------

Init ==
    /\ NameMapper = "ToLower"
    /\ origMapper = "ToLower"
    /\ mpr = NoMapper
    /\ builds = 0
    /\ mprMu = 0
    /\ mpc = [p \in Procs |-> "idle"]
    /\ mret = [p \in Procs |-> NoMapper]
    /\ mcall = [p \in Procs |-> "ToLower"]
    /\ mdirty = [p \in Procs |-> FALSE]
    /\ mstale = [p \in Procs |-> FALSE]
    /\ handles = {}
    /\ pc = "idle"
    /\ dest = [kind |-> "NotPtr", elem |-> "int", isPtr |-> FALSE]
    /\ structOnly = FALSE
    /\ rows = SqlRows
    /\ direct = <<>>
    /\ direct0 = <<>>
    /\ scannable = FALSE
    /\ columns = <<>>
    /\ fields = <<>>
    /\ values = <<>>
    /\ vp = 0
    /\ heap = <<>>
    /\ m = NoMapper
    /\ err = NoErr
    /\ calls = [columns |-> 0, next |-> 0, scan |-> 0]
    /\ pos = 0
    /\ decoded = <<>>
    /\ rowsErr = [asked |-> 0, err |-> NoErr]
    /\ sel = "idle"
    /\ opened = 0
    /\ closed = 0
    /\ selErr = NoErr
    /\ wire = NoCall

vars == <<mapVars, procVars, hVars, scanVars, selVars, wireVars>>

\* scanAll on a cursor of a DB that was opened, and maybe made unsafe, before
Next ==
    \/ pc = "idle" /\ \E f \in NameFuncs : SetNameMapper(f)
    \/ pc = "idle" /\ handles = {} /\ Open
    \/ pc = "idle" /\ Cardinality(handles) < 2 /\ \E h \in handles : DBUnsafe(h)
    \/ pc = "idle" /\ \E r \in Cursors, d \in DestKinds, t \in ElemTypes, ptr \in BOOLEAN,
          n0 \in 0..MaxInit, so \in BOOLEAN : scanAllEnter(r, d, t, ptr, n0, so)
    \/ pc = "idle" /\ \E db \in handles, args \in QueryArgs, qok \in BOOLEAN, d \in DestKinds,
          t \in ElemTypes, ptr \in BOOLEAN, n0 \in 0..MaxInit :
              DBSelect(db, args, qok, d, t, ptr, n0)
    \/ DBSelectReturn
    \/ pc = "columns" /\ \E ok \in BOOLEAN, cols \in ColumnLists : scanAllColumns(ok, cols)
    \/ scanAllResolve
    \/ \E more \in BOOLEAN : scanAllNext(more)
    \/ scanAllBind
    \/ \E ok \in BOOLEAN : scanAllScan(ok)
    \/ scanAllAppend
    \/ \E more \in BOOLEAN : scanAllNextScalar(more)
    \/ \E ok \in BOOLEAN : scanAllScanScalar(ok)
    \/ scanAllAppendScalar
    \/ \E e \in IterErrs : scanAllErr(e)

Spec == Init /\ [][Next]_vars

\* DB.Get on a DB that was opened, and maybe made unsafe, before
NextGet ==
    \/ pc = "idle" /\ \E f \in NameFuncs : SetNameMapper(f)
    \/ pc = "idle" /\ handles = {} /\ Open
    \/ pc = "idle" /\ Cardinality(handles) < 2 /\ \E h \in handles : DBUnsafe(h)
    \/ pc = "idle" /\ \E db \in handles, args \in QueryArgs, qe \in QueryErrs,
          d \in GetDestKinds, t \in ElemTypes, colsOk \in BOOLEAN, cols \in ColumnLists,
          more \in BOOLEAN, fin \in IterErrs, ok \in BOOLEAN :
              DBGet(db, args, qe, d, t, colsOk, cols, more, fin, ok)

SpecGet == Init /\ [][NextGet]_vars

NextMapper ==
    \/ \E f \in NameFuncs : SetNameMapper(f)
    \/ \E p \in Procs : mapperLock(p)
    \/ \E p \in Procs : mapperCheck(p)
    \/ \E p \in Procs : mapperNew(p)
    \/ \E p \in Procs : mapperRenew(p)
    \/ \E p \in Procs : mapperStore(p)
    \/ \E p \in Procs : mapperReturn(p)

SpecMapper == Init /\ [][NextMapper]_vars

NextHandles ==
    \/ \E f \in NameFuncs : SetNameMapper(f)
    \/ Open
    \/ \E h \in handles : DBBegin(h)
    \/ \E h \in handles : DBPrepare(h)
    \/ \E h \in handles : DBPrepared(h)
    \/ \E h \in handles, args \in QueryArgs : DBExec(h, args)
    \/ \E h \in handles, args \in QueryArgs : DBQuery(h, args)
    \/ \E h \in handles, args \in QueryArgs, e \in QueryErrs : DBQueryRow(h, args, e)
    \/ \E h \in handles : DBMaster(h)
    \/ \E h \in handles : DBUnsafe(h)
    \/ \E h \in handles, args \in QueryArgs : TxExec(h, args)
    \/ \E h \in handles, args \in QueryArgs : TxQuery(h, args)
    \/ \E h \in handles, args \in QueryArgs, e \in QueryErrs : TxQueryRow(h, args, e)
    \/ \E h \in handles, s \in handles : TxStmt(h, s)
    \/ \E h \in handles : TxStmtRaw(h)
    \/ \E h \in handles : TxPrepare(h)
    \/ \E h \in handles, args \in QueryArgs : StmtExec(h, args)
    \/ \E h \in handles, args \in QueryArgs : StmtQuery(h, args)
    \/ \E h \in handles, args \in QueryArgs, e \in QueryErrs : StmtQueryRow(h, args, e)

SpecHandles == Init /\ [][NextHandles]_vars

\* Exec, Query and QueryRow on a DB, a Tx and a Stmt with every argument list
NextArgs ==
    \/ handles = {} /\ Open
    \/ \E h \in handles : DBBegin(h)
    \/ \E h \in handles : DBPrepare(h)
    \/ \E h \in handles, args \in ArgLists : DBExec(h, args)
    \/ \E h \in handles, args \in ArgLists : DBQuery(h, args)
    \/ \E h \in handles, args \in ArgLists, e \in QueryErrs : DBQueryRow(h, args, e)
    \/ \E h \in handles, args \in ArgLists : TxExec(h, args)
    \/ \E h \in handles, args \in ArgLists : TxQuery(h, args)
    \/ \E h \in handles, args \in ArgLists, e \in QueryErrs : TxQueryRow(h, args, e)
    \/ \E h \in handles, args \in ArgLists : StmtExec(h, args)
    \/ \E h \in handles, args \in ArgLists : StmtQuery(h, args)
    \/ \E h \in handles, args \in ArgLists, e \in QueryErrs : StmtQueryRow(h, args, e)

SpecArgs == Init /\ [][NextArgs]_vars

-----------------------------------------------------------------------------
(* What the claims speak of, stated apart from the operators of scanAll *)

\* the pre-loop part of scanAll that resolves the columns has run
Resolved == m # NoMapper

\* the canonical field names of type t under mapper mp
CanonNames(mp, t) == {TypeMap(mp, t)[i].name : i \in 1..Len(TypeMap(mp, t))}

\* the path of the field of t with canonical name n under mp
CanonPath(mp, t, n) ==
    (CHOOSE e \in {TypeMap(mp, t)[i] : i \in 1..Len(TypeMap(mp, t))} : e.name = n).path

\* the column positions with, and without, a field of their name
Matched == {i \in 1..Len(columns) : columns[i] \in CanonNames(m, dest.elem)}
Unmatched == {i \in 1..Len(columns) : columns[i] \notin CanonNames(m, dest.elem)}

\* the element types section 4.3 calls scalar-like
ScalarLike(t) == t \in {"int", "NullInt", "Empty"}

NoCalls == [columns |-> 0, next |-> 0, scan |-> 0]

\* the elements scanAll has appended so far
Appended == [k \in 1..(Len(direct) - Len(direct0)) |-> direct[Len(direct0) + k]]

(* C1: in strict mode, scanAll on a field-mapped element type and a cursor *)
(* with a column that matches no field fails with MissingField, naming     *)
(* such a column, before any row is read: Next and Scan are not called     *)
(* and nothing is appended.                                                *)
C1_StrictMissingField ==
    (Resolved /\ ~scannable /\ ~rows.unsafe /\ Unmatched # {}) =>
        /\ pc = "done"
        /\ err.kind = "MissingField"
        /\ \E i \in Unmatched : err.col = columns[i]
        /\ calls.next = 0 /\ calls.scan = 0 /\ pos = 0
        /\ direct = direct0

C1_Witness ==
    /\ pc = "done" /\ err.kind = "MissingField"
    /\ rows.kind = "Rows" /\ ~rows.unsafe
    /\ Len(columns) = 3 /\ Matched # {}

(* C2: in lenient mode, scanAll on a field-mapped element type and a       *)
(* cursor with columns that match no field never returns MissingField;     *)
(* for every row the unmatched column positions are bound to discard       *)
(* slots and the matched ones to their fields, which receive the columns'  *)
(* values; one element per decoded row is appended, and the scan returns   *)
(* nil with one element per row when the cursor reports no error.          *)
C2_LenientDiscards ==
    (Resolved /\ ~scannable /\ rows.unsafe /\ Unmatched # {}) =>
        /\ err.kind \in {"nil", "DecodeError", "CursorError"}
        /\ pc \in {"scan", "append"} =>
              /\ \A i \in Unmatched : values[i] = DiscardSlot
              /\ \A i \in Matched :
                    values[i] = FieldSlot(vp, CanonPath(m, dest.elem, columns[i]))
        /\ pc = "append" =>
              \A i \in Matched :
                  heap[vp][CanonPath(m, dest.elem, columns[i])] = Cell(pos, columns[i])
        /\ pc \in {"next", "bind", "scan", "err", "done"} =>
              /\ Len(Appended) = Len(decoded)
              /\ \A k \in 1..Len(Appended) : \A i \in Matched :
                    ElemValue(Appended[k])[CanonPath(m, dest.elem, columns[i])]
                        = Cell(decoded[k], columns[i])
        /\ (pc = "done" /\ err = NoErr) => Len(Appended) = pos

C2_Witness ==
    /\ pc = "done" /\ err = NoErr
    /\ rows.unsafe /\ ~scannable
    /\ Unmatched # {} /\ Matched # {}
    /\ pos = 2 /\ Len(Appended) = 2

(* C5: for a scalar-like element type scanAll requires exactly one column: *)
(* with any other column count, zero as well as two or more, it fails with *)
(* ShapeMismatch naming the count, before any row is consumed and with     *)
(* nothing appended.                                                       *)
C5_ScalarNeedsOneColumn ==
    (scannable /\ pc \notin {"idle", "columns"} /\ calls.columns = 1
        /\ err # Error("CursorError", 0, "Columns") /\ Len(columns) # 1) =>
        /\ pc = "done"
        /\ err = Error("ShapeMismatch", Len(columns), "")
        /\ calls.next = 0 /\ calls.scan = 0 /\ pos = 0
        /\ direct = direct0

(* C6: once a per-row Scan has failed, scanAll has returned that error and *)
(* nothing happens any more: the cursor is not advanced again, no row is   *)
(* decoded or appended, and the elements of the rows decoded before stay   *)
(* in the destination.                                                     *)
C6_FailedIsTerminal ==
    /\ [](err.kind = "DecodeError" =>
            /\ pc = "done"
            /\ err.n = pos
            /\ calls.next = pos /\ calls.scan = pos
            /\ Len(decoded) + 1 = pos
            /\ Len(Appended) = Len(decoded)
            /\ \A k \in 1..Len(direct0) : direct[k] = direct0[k])
    /\ [][err.kind = "DecodeError" =>
            (err' = err /\ pc' = pc /\ calls' = calls /\ pos' = pos
                /\ direct' = direct /\ heap' = heap /\ decoded' = decoded)]_vars

C6_Witness ==
    /\ pc = "done" /\ err.kind = "DecodeError"
    /\ pos = 2 /\ Len(Appended) = 1 /\ Len(direct0) = 1

(* C7 as stated: after scanAll on an initially empty slice and a cursor    *)
(* that produces zero rows (and reports no error of its own) the slice is  *)
(* empty and scanAll has returned no error.                                *)
C7_ZeroRowsNoError ==
    (pc = "done" /\ dest.kind = "PtrToSlice" /\ direct0 = <<>> /\ pos = 0
        /\ err.kind # "CursorError") =>
        (direct = <<>> /\ err = NoErr)

\* one of scanAll's checks before the loop fails
PreLoopCheckFails ==
    \/ structOnly /\ ScalarLike(dest.elem)
    \/ calls.columns = 1 /\ ScalarLike(dest.elem) /\ Len(columns) > 1
    \/ Resolved /\ ~ScalarLike(dest.elem) /\ ~rows.unsafe /\ Unmatched # {}

(* C7 amended: after scanAll on an initially empty slice and a cursor that *)
(* produces zero rows the slice is empty; scanAll has returned no error    *)
(* unless the cursor reported one or a check before the loop failed        *)
(* (StructOnlyViolation, ShapeMismatch for a scalar-like element type and  *)
(* more than one column, MissingField in strict mode).                     *)
C7_ZeroRowsEmpty ==
    (pc = "done" /\ dest.kind = "PtrToSlice" /\ direct0 = <<>> /\ pos = 0) =>
        /\ direct = <<>>
        /\ (err.kind # "CursorError" /\ ~PreLoopCheckFails) => err = NoErr
        /\ PreLoopCheckFails =>
              err.kind \in {"StructOnlyViolation", "ShapeMismatch", "MissingField",
                            "CursorError"}

C7_Witness ==
    /\ pc = "done" /\ dest.kind = "PtrToSlice" /\ direct0 = <<>> /\ pos = 0
    /\ calls.next = 1 /\ err = NoErr /\ direct = <<>>
    /\ ~scannable /\ Len(columns) = 3

(* C8: scanAll with structOnly = true and a scalar-like element type fails *)
(* with StructOnlyViolation before any row is consumed: Columns, Next and  *)
(* Scan are not called and the destination is unchanged.                   *)
C8_StructOnlyViolation ==
    (pc # "idle" /\ dest.kind = "PtrToSlice" /\ structOnly /\ ScalarLike(dest.elem)) =>
        /\ pc = "done"
        /\ err.kind = "StructOnlyViolation"
        /\ calls = NoCalls /\ pos = 0
        /\ direct = direct0

C8_Witness ==
    /\ pc = "done" /\ err.kind = "StructOnlyViolation"
    /\ dest.elem = "NullInt" /\ Len(direct0) = 1 /\ direct = direct0

(* C9: scanAll fails with InvalidDestination whenever dest is not a        *)
(* pointer, is a nil pointer or does not point to a slice; no cursor       *)
(* operation is invoked and the destination is unchanged.                  *)
C9_InvalidDestination ==
    (pc # "idle" /\ dest.kind \in {"NotPtr", "NilPtr", "PtrToNonSlice"}) =>
        /\ pc = "done"
        /\ err.kind = "InvalidDestination"
        /\ calls = NoCalls /\ pos = 0
        /\ direct = direct0 /\ heap = <<>>

C9_Witness ==
    /\ pc = "done" /\ err.kind = "InvalidDestination"
    /\ dest.kind = "PtrToNonSlice" /\ rows.kind = "Rows"

(* C10: for a field-mapped element type whose canonical field names are    *)
(* exactly the cursor's column names, in any column order, every decoded   *)
(* row fills each field with the value of the column of the same name:     *)
(* column position i is bound to the field with the name of column i.      *)
C10_FieldsByName ==
    (Resolved /\ ~scannable
        /\ {columns[i] : i \in 1..Len(columns)} = CanonNames(m, dest.elem)) =>
        /\ pc \in {"scan", "append"} =>
              \A i \in 1..Len(columns) :
                  values[i] = FieldSlot(vp, CanonPath(m, dest.elem, columns[i]))
        /\ pc = "append" =>
              \A n \in CanonNames(m, dest.elem) :
                  heap[vp][CanonPath(m, dest.elem, n)] = Cell(pos, n)
        /\ pc \in {"next", "bind", "scan", "err", "done"} =>
              /\ Len(Appended) = Len(decoded)
              /\ \A k \in 1..Len(Appended) : \A n \in CanonNames(m, dest.elem) :
                    ElemValue(Appended[k])[CanonPath(m, dest.elem, n)] = Cell(decoded[k], n)

C10_Witness ==
    /\ pc = "done" /\ err = NoErr /\ ~scannable
    /\ columns = <<"c", "a", "b">>
    /\ pos = 2 /\ Len(Appended) = 2
    /\ ElemValue(Appended[2])[<<1, 1>>] = Cell(2, "c")

\* the element the decode of row r yields: for a scalar-like element type
\* the value of the one column, for a field-mapped one the value of the
\* column of its name in every field that has one and zero elsewhere
RowElement(r) ==
    IF scannable THEN [p \in {<<>>} |-> Cell(r, columns[1])]
    ELSE [p \in LeafPaths(dest.elem) |->
             LET hit == {i \in Matched : CanonPath(m, dest.elem, columns[i]) = p}
             IN  IF hit = {} THEN ZeroCell ELSE Cell(r, columns[CHOOSE i \in hit : TRUE])]

(* C16: at every point of scanAll the slice holds its initial elements,    *)
(* unchanged, followed by one element per row whose Scan succeeded, in the *)
(* order of the rows: element k after the initial ones holds row k, a row  *)
(* is appended only once its Scan has succeeded (the append of the last    *)
(* decoded row may be pending), and nothing is appended for a failed row.  *)
(* Elements are references exactly when the slice holds pointers.          *)
C16_AppendedAreDecodedRows ==
    /\ Len(direct) >= Len(direct0)
    /\ \A k \in 1..Len(direct0) :
          /\ direct[k] = direct0[k]
          /\ ElemValue(direct[k]) = ZeroObj(dest.elem, ~scannable)
    /\ Len(Appended) =
          IF pc \in {"append", "appendScalar"} THEN Len(decoded) - 1 ELSE Len(decoded)
    /\ Len(decoded) <= pos
    /\ \A k \in 1..Len(decoded) : decoded[k] = k
    /\ \A k \in 1..Len(Appended) :
          /\ (Appended[k].ref # 0) <=> dest.isPtr
          /\ ElemValue(Appended[k]) = RowElement(decoded[k])

C16_Witness ==
    /\ pc = "done" /\ err.kind = "DecodeError"
    /\ dest.isPtr /\ scannable /\ Len(direct0) = 1
    /\ pos = 2 /\ Len(direct) = 2
    /\ ElemValue(direct[2]) = RowElement(1)

\* the last call of rows.Next() returned false
Exhausted == calls.next = pos + 1

(* C17: scanAll asks the cursor for its final error once, and only after   *)
(* Next has returned false, and returns what the cursor reports as it is:  *)
(* nil exactly when the cursor reports nil.  scanAll returns nil in no     *)
(* other way, and the elements of all rows delivered are in the slice.     *)
C17_ReturnsRowsErr ==
    /\ rowsErr.asked <= 1
    /\ rowsErr.asked = 1 =>
          /\ pc = "done" /\ Exhausted
          /\ err = rowsErr.err
          /\ Len(Appended) = pos /\ Len(decoded) = pos
    /\ (pc = "done" /\ Exhausted) => rowsErr.asked = 1
    /\ pc = "err" => (Exhausted /\ rowsErr.asked = 0 /\ Len(Appended) = pos)
    /\ (pc = "done" /\ err = NoErr) => (rowsErr.asked = 1 /\ rowsErr.err = NoErr)

C17_Witness ==
    /\ pc = "done" /\ rowsErr.asked = 1 /\ err.kind = "CursorError"
    /\ pos = 2 /\ Len(Appended) = 2 /\ ~scannable

\* the mapped fields a struct type has, whatever the name func
MappedFields(t) == {p \in LeafPaths(t) : Kind(t) = "struct"}

\* scanAll is on its field-mapping path, or has been
FieldMapped ==
    \/ pc \in {"resolve", "next", "bind", "scan", "append"}
    \/ m # NoMapper \/ fields # <<>> \/ values # <<>>

(* C18: scanAll classifies the element type as scalar-like exactly when a  *)
(* pointer to it implements the scanner, or it is not a struct, or it is a *)
(* struct without mapped fields.  The scanner test decides first: a struct *)
(* that implements the scanner and has a mappable field is scalar-like,    *)
(* and scanAll never resolves columns or binds fields for it.              *)
C18_ScannerFirst ==
    (pc # "idle" /\ dest.kind = "PtrToSlice") =>
        /\ scannable <=>
              \/ ImplementsScanner(dest.elem)
              \/ Kind(dest.elem) # "struct"
              \/ MappedFields(dest.elem) = {}
        /\ scannable <=> ScalarLike(dest.elem)
        /\ scannable => ~FieldMapped
        /\ (ImplementsScanner(dest.elem) /\ MappedFields(dest.elem) # {}) =>
              (scannable /\ ~FieldMapped)

C18_Witness ==
    /\ pc = "done" /\ err = NoErr
    /\ dest.elem = "NullInt" /\ MappedFields("NullInt") # {}
    /\ scannable /\ ~FieldMapped
    /\ pos = 2 /\ Len(Appended) = 2

\* the addresses the elements of the slice refer to
Referenced == {direct[k].ref : k \in 1..Len(direct)} \ {0}

(* C19: every row gets an element of its own.  When a row is decoded, vp   *)
(* is the element allocated last, not yet in the slice, and every slot of  *)
(* the row buffer is a discard slot or the address of a field of vp.  In a *)
(* slice of pointers no two elements are the same reference.  No step of   *)
(* scanAll changes an element that is already in the slice.                *)
C19_FreshElementPerRow ==
    /\ [](/\ pc \in {"scan", "append", "appendScalar"} =>
                (vp = Len(heap) /\ vp \notin Referenced)
          /\ pc \in {"scan", "append"} =>
                /\ Len(values) = Len(columns)
                /\ \A i \in 1..Len(values) :
                      \/ values[i] = DiscardSlot
                      \/ values[i].kind = "field" /\ values[i].obj = vp
          /\ dest.isPtr =>
                \A j, k \in 1..Len(direct) : direct[j].ref = direct[k].ref => j = k)
    /\ [][\A k \in 1..Len(direct) :
             /\ Len(direct') >= k
             /\ direct'[k] = direct[k]
             /\ direct[k].ref # 0 => heap'[direct[k].ref] = heap[direct[k].ref]]_vars

C19_Witness ==
    /\ pc = "done" /\ err = NoErr
    /\ dest.isPtr /\ ~scannable /\ Len(direct0) = 1 /\ Len(direct) = 3
    /\ Matched # {} /\ Unmatched # {}
    /\ direct[2].ref # direct[3].ref
    /\ ElemValue(direct[2]) # ElemValue(direct[3])

(* C11: DB.Select closes the cursor its query returned exactly once, and   *)
(* only when scanAll has returned, whatever scanAll returned; Select then  *)
(* returns scanAll's error.  When the query fails Select returns the       *)
(* query's error and no cursor is opened or closed.                        *)
C11_SelectClosesCursor ==
    /\ closed <= opened /\ opened <= 1
    /\ sel = "idle" => (opened = 0 /\ closed = 0)
    /\ sel = "scanning" => (opened = 1 /\ closed = 0)
    /\ sel = "returned" =>
          /\ closed = opened
          /\ opened = 1 => (pc = "done" /\ selErr = err)
          /\ opened = 0 => (pc = "idle" /\ selErr.kind = "QueryError" /\ calls = NoCalls)

C11_Witness ==
    /\ sel = "returned" /\ opened = 1 /\ closed = 1
    /\ selErr.kind = "DecodeError" /\ Len(Appended) = 1

C13_RowsMapperIsCurrent ==
    (Resolved /\ rows.kind = "Rows") => m.fn = NameMapper

(* C14: a call of Stmt.Exec, Stmt.Query or Stmt.QueryRow with n arguments  *)
(* reaches the wrapped prepared statement as the same n arguments, in      *)
(* order, as the calls of DB.Exec and DB.Query do.                         *)
C14_StmtPassesArgs ==
    wire.on \in {"DB", "Stmt"} =>
        /\ Len(wire.got) = Len(wire.given)
        /\ wire.got = spread(wire.given)

(* C4: a mapper() call during which NameMapper was not replaced returns a  *)
(* mapper built from the NameMapper installed when the call was made, also *)
(* after earlier replacements: never a mapper built from a replaced func.  *)
C4_MapperIsCurrent ==
    \A p \in Procs :
        (mpc[p] = "done" /\ ~mdirty[p]) => mret[p].fn = mcall[p]

\* the goroutines between mprMu.Lock() and the deferred Unlock()
InMapper == {p \in Procs : mpc[p] \in {"check", "new", "renew", "store", "unlock"}}

(* C15: the body of mapper() runs under mutual exclusion, no call returns   *)
(* nil, and while NameMapper is not replaced one mapper is constructed and  *)
(* handed to every caller: two calls that both started after NameMapper    *)
(* was last assigned return the same instance.                             *)
C15_OneMapperPerNameMapper ==
    /\ Cardinality(InMapper) <= 1
    /\ \A p \in InMapper : mprMu = p
    /\ \A p \in Procs : mpc[p] = "done" => mret[p] # NoMapper
    /\ \A p, q \in Procs :
          (mpc[p] = "done" /\ mpc[q] = "done" /\ ~mstale[p] /\ ~mstale[q]) =>
              mret[p] = mret[q]

(* C20: strict is the default.  The DB Open returns is strict; Unsafe()    *)
(* returns another DB with the receiver's connection and mapper and leaves *)
(* the receiver as it was; and every value not reached through a DB that   *)
(* Unsafe() returned is strict, whatever has been called since.            *)
C20_StrictByDefault ==
    /\ [](/\ \A h \in handles : ~h.lenient => ~h.unsafe
          /\ \A h \in handles : (h.kind = "DB" /\ h.conn = "pool" /\ ~h.lenient) =>
                (~h.unsafe /\ h.Mapper # NoMapper)
          /\ handles # {} => \E h \in handles : h.kind = "DB" /\ ~h.unsafe /\ ~h.lenient
          /\ \A u \in handles : (u.kind = "DB" /\ u.unsafe /\ u.conn = "pool") =>
                \E db \in handles :
                    /\ db.kind = "DB" /\ ~db.unsafe
                    /\ db.conn = u.conn /\ db.Mapper = u.Mapper)
    /\ [][handles \subseteq handles']_vars

C20_Witness ==
    \E db, u, tx, r \in handles :
        /\ db.kind = "DB" /\ ~db.unsafe /\ ~db.lenient
        /\ u = UnsafeDB(db) /\ u.unsafe
        /\ tx = BeginTx(db) /\ ~tx.unsafe
        /\ r = QueryRows(tx) /\ ~r.unsafe

(* C3: every value reached through a chain of Begin, Prepare, Prepared,     *)
(* Query, QueryRow, Master and the Tx and Stmt methods from a DB returned   *)
(* by Unsafe() carries unsafe = true.                                       *)
C3_LenientPropagates ==
    \A h \in handles : h.lenient => h.unsafe

=============================================================================
